---- MODULE Spec2Model ----
(***************************************************************************)
(* A model of the terminal text editor of src/main.rs: the SourceEditor    *)
(* (line buffer, cursor, scrolling viewport) and the Ui control loop that  *)
(* renders a frame and then applies one input event.                       *)
(*                                                                         *)
(* A line is a Rust String: a sequence of UTF-8 bytes.  Every index the    *)
(* code uses (column, len(), width) is a byte index, and the String        *)
(* methods panic when an index is not on a character boundary.             *)
(*                                                                         *)
(* usize arithmetic: a subtraction below zero panics when the build has    *)
(* overflow checks (the dev profile) and wraps modulo 2^64 when it has     *)
(* not (the release profile).  A wrapped value 2^64 - n is written -n.     *)
(***************************************************************************)
EXTENDS Integers, Sequences, FiniteSets, TLC

\* Bounds of the model.
MaxLines == 3        \* Enter is not offered when the buffer has this many lines
MaxBytes == 4        \* a character is not offered when the text would exceed it
MaxInitChars == 2    \* characters of the text the editor is started with
MaxWidth == 2        \* terminal columns are 0..MaxWidth
MaxRows == 3         \* terminal rows are 0..MaxRows (one row is the status bar)
AnyLines == 4        \* lines of the buffers scroll_to_show_cursor is tried on
AnyScroll == 4       \* the largest scroll it is tried on
AnyHeight == 3       \* the largest height it is tried on

\* Characters as their UTF-8 encodings.
LetterA == <<97>>
LetterB == <<98>>
EAcute == <<195, 169>>
LineFeed == <<10>>

AsciiChars == {LetterA, LetterB}
Chars == {LetterA, EAcute}

VARIABLES
    buffer,       \* SourceEditor.buffer: Vec<String>
    width,        \* SourceEditor.width
    height,       \* SourceEditor.height
    row,          \* SourceEditor.row
    column,       \* SourceEditor.column
    scroll,       \* SourceEditor.scroll
    should_exit,  \* Ui.should_exit
    pc,           \* position of Ui::run: "render", "event", "done" or "aborted"
    panic,        \* "none", or why the process has panicked
    frame,        \* what SourceEditor::render returned last
    last          \* the event handled since the last frame, and what it found

vars == <<buffer, width, height, row, column, scroll, should_exit, pc, panic, frame, last>>

----------------------------------------------------------------------------
\* Strings (std::string::String and str, as main.rs uses them).

Min(a, b) == IF a < b THEN a ELSE b

\* A continuation byte of a multi-byte character (0b10xxxxxx).
IsContinuation(b) == b >= 128 /\ b < 192

\* str::is_char_boundary(i), i a byte index counted from 0.
IsCharBoundary(s, i) ==
    \/ i = 0
    \/ i = Len(s)
    \/ i > 0 /\ i < Len(s) /\ ~IsContinuation(s[i + 1])

\* char::len_utf8 of the character whose first byte is b.
Utf8Len(b) ==
    IF b < 128 THEN 1 ELSE IF b < 224 THEN 2 ELSE IF b < 240 THEN 3 ELSE 4

\* &s[..n]
Prefix(s, n) == SubSeq(s, 1, n)

\* &s[n..]
Suffix(s, n) == SubSeq(s, n + 1, Len(s))

\* str::lines in the place of str::split('\n'): no piece for an empty text
\* or after a final line feed.
RECURSIVE SplitLines_lines(_)
SplitLines_lines(text) ==
    IF text = <<>> THEN <<>>
    ELSE IF \A i \in 1..Len(text) : text[i] # LineFeed[1] THEN <<text>>
    ELSE LET i == CHOOSE j \in 1..Len(text) :
                      text[j] = LineFeed[1] /\ \A k \in 1..(j - 1) : text[k] # LineFeed[1]
         IN <<Prefix(text, i - 1)>> \o SplitLines_lines(Suffix(text, i))

\* str::split('\n') collected into a Vec<String>: always at least one piece.
RECURSIVE SplitLines(_)
SplitLines(text) ==
    IF \A i \in 1..Len(text) : text[i] # LineFeed[1] THEN <<text>>
    ELSE LET i == CHOOSE j \in 1..Len(text) :
                      text[j] = LineFeed[1] /\ \A k \in 1..(j - 1) : text[k] # LineFeed[1]
         IN <<Prefix(text, i - 1)>> \o SplitLines(Suffix(text, i))

RECURSIVE Flatten(_)
Flatten(ss) == IF ss = <<>> THEN <<>> ELSE ss[1] \o Flatten(Tail(ss))

TotalBytes(ls) == Len(Flatten(ls))

----------------------------------------------------------------------------
\* The SourceEditor as a value, and its methods as operators on it.  A method
\* that panics returns the editor as it was at the panic, with the reason.

Ed == [buffer |-> buffer, width |-> width, height |-> height, row |-> row,
       column |-> column, scroll |-> scroll, panic |-> panic]

Panicked(ed, why) == [ed EXCEPT !.panic = why]

\* SourceEditor::new
new(text, w, h) ==
    [buffer |-> SplitLines(text), width |-> w, height |-> h,
     row |-> 0, column |-> 0, scroll |-> 0, panic |-> "none"]

\* scroll_to_show_cursor with the window's bottom one row short: the cursor
\* ends just below the window.
scroll_to_show_cursor_short(ed) ==
    LET top_line == ed.scroll
        bottom_line == ed.scroll + ed.height
    IN IF ed.panic # "none" THEN ed
       ELSE IF ed.row < top_line THEN [ed EXCEPT !.scroll = ed.row]
       ELSE IF ed.row >= bottom_line THEN [ed EXCEPT !.scroll = ed.row - ed.height]
       ELSE ed

\* SourceEditor::scroll_to_show_cursor
scroll_to_show_cursor(ed) ==
    LET top_line == ed.scroll
        bottom_line == ed.scroll + ed.height
    IN IF ed.panic # "none" THEN ed
       ELSE IF ed.row < top_line THEN [ed EXCEPT !.scroll = ed.row]
       ELSE IF ed.row >= bottom_line THEN [ed EXCEPT !.scroll = ed.row - ed.height + 1]
       ELSE ed

\* SourceEditor::clamp_column
clamp_column(ed) ==
    IF ed.panic # "none" THEN ed
    ELSE IF ed.row >= Len(ed.buffer) THEN Panicked(ed, "index")
    ELSE LET len == Len(ed.buffer[ed.row + 1])
         IN IF ed.column > len THEN [ed EXCEPT !.column = len] ELSE ed

\* SourceEditor::resize
resize(ed, w, h) ==
    scroll_to_show_cursor([ed EXCEPT !.width = w, !.height = h])

\* SourceEditor::keypress: String::insert panics off a character boundary.
keypress(ed, c) ==
    IF ed.row >= Len(ed.buffer) THEN Panicked(ed, "index")
    ELSE LET line == ed.buffer[ed.row + 1]
         IN IF ~IsCharBoundary(line, ed.column) THEN Panicked(ed, "boundary")
            ELSE [ed EXCEPT
                    !.buffer[ed.row + 1] =
                        Prefix(line, ed.column) \o c \o Suffix(line, ed.column),
                    !.column = ed.column + 1]

\* String::remove(idx) on line, as backspace calls it: the new line, or the
\* panic of slicing off a boundary or of removing at the end.
RemoveAt(ed, idx) ==
    LET line == ed.buffer[ed.row + 1]
    IN IF idx > Len(line) \/ ~IsCharBoundary(line, idx) THEN Panicked(ed, "boundary")
       ELSE IF idx = Len(line) THEN Panicked(ed, "remove")
       ELSE [ed EXCEPT !.buffer[ed.row + 1] =
                Prefix(line, idx) \o Suffix(line, idx + Utf8Len(line[idx + 1]))]

\* Vec::remove(i), i counted from 0.
VecRemove(v, i) == Prefix(v, i) \o Suffix(v, i + 1)

\* Vec::insert(i, x), i counted from 0.
VecInsert(v, i, x) == Prefix(v, i) \o <<x>> \o Suffix(v, i)

\* SourceEditor::backspace
backspace(ed) ==
    IF ed.column = 0 THEN
        IF ed.row = 0 THEN ed
        ELSE IF ed.row >= Len(ed.buffer) THEN Panicked(ed, "index")
        ELSE LET removed == ed.buffer[ed.row + 1]
                 rest == VecRemove(ed.buffer, ed.row)
                 r == ed.row - 1
                 len == Len(rest[r + 1])
             IN [ed EXCEPT !.buffer = [rest EXCEPT ![r + 1] = rest[r + 1] \o removed],
                           !.row = r,
                           !.column = len]
    ELSE LET moved == [ed EXCEPT !.column = ed.column - 1]
         IN IF ed.row >= Len(ed.buffer) THEN Panicked(moved, "index")
            ELSE RemoveAt(moved, moved.column)

\* SourceEditor::enter: String::split_off panics off a character boundary.
enter(ed) ==
    IF ed.row >= Len(ed.buffer) THEN Panicked(ed, "index")
    ELSE LET line == ed.buffer[ed.row + 1]
         IN IF ed.column > Len(line) \/ ~IsCharBoundary(line, ed.column)
            THEN Panicked(ed, "boundary")
            ELSE scroll_to_show_cursor(
                   [ed EXCEPT
                      !.buffer = VecInsert([ed.buffer EXCEPT ![ed.row + 1] =
                                                Prefix(line, ed.column)],
                                           ed.row + 1, Suffix(line, ed.column)),
                      !.row = ed.row + 1,
                      !.column = 0])

\* SourceEditor::left
left(ed) == IF ed.column # 0 THEN [ed EXCEPT !.column = ed.column - 1] ELSE ed

\* SourceEditor::right
right(ed) ==
    IF ed.row >= Len(ed.buffer) THEN Panicked(ed, "index")
    ELSE IF ed.column < Len(ed.buffer[ed.row + 1])
         THEN [ed EXCEPT !.column = ed.column + 1]
         ELSE ed

\* SourceEditor::up
up(ed) ==
    scroll_to_show_cursor(clamp_column(
        IF ed.row # 0 THEN [ed EXCEPT !.row = ed.row - 1] ELSE ed))

\* down with its bound off by one: row < len in the place of row < len - 1.
down_off_by_one(ed) ==
    scroll_to_show_cursor(clamp_column(
        IF ed.row < Len(ed.buffer) THEN [ed EXCEPT !.row = ed.row + 1] ELSE ed))

\* SourceEditor::down
down(ed) ==
    IF Len(ed.buffer) = 0 THEN Panicked(ed, "subtract")
    ELSE scroll_to_show_cursor(clamp_column(
            IF ed.row < Len(ed.buffer) - 1 THEN [ed EXCEPT !.row = ed.row + 1] ELSE ed))

\* SourceEditor::home
home(ed) == [ed EXCEPT !.column = 0]

\* SourceEditor::end
end(ed) ==
    IF ed.row >= Len(ed.buffer) THEN Panicked(ed, "index")
    ELSE [ed EXCEPT !.column = Len(ed.buffer[ed.row + 1])]

----------------------------------------------------------------------------
\* SourceEditor::render

EndMarker == <<126>>    \* "~"

\* The lines render visits: skip(scroll).take(height).
Visible(ed) ==
    SubSeq(ed.buffer, ed.scroll + 1, Min(Len(ed.buffer), ed.scroll + ed.height))

\* A line cut to the width: &line[..width] panics off a character boundary.
CanTruncate(line, w) == Len(line) < w \/ IsCharBoundary(line, w)

Truncate(line, w) == IF Len(line) < w THEN line ELSE Prefix(line, w)

RenderLines(ed) ==
    [i \in 1..ed.height |->
        IF i <= Len(Visible(ed)) THEN Truncate(Visible(ed)[i], ed.width)
        ELSE EndMarker]

NoFrame == [lines |-> <<>>, column |-> 0, row |-> 0]

----------------------------------------------------------------------------
\* The control loop, Ui::run.

\* The texts the editor may be started with: up to MaxInitChars characters
\* and line feeds.
TextsOver(cs) ==
    {Flatten(t) : t \in UNION {[1..n -> cs \cup {LineFeed}] : n \in 0..MaxInitChars}}

\* No event: the value of `last` once its event's frame is rendered.
NoEvent ==
    [cmd |-> "none", arg |-> <<>>, buffer |-> <<>>, row |-> 0, column |-> 0,
     scroll |-> 0]

\* The record of an event: its command and argument, and the buffer, cursor and
\* scroll it found.
Before(what, arg) ==
    [cmd |-> what, arg |-> arg, buffer |-> buffer, row |-> row, column |-> column,
     scroll |-> scroll]

SetEditor(ed) ==
    /\ buffer' = ed.buffer
    /\ width' = ed.width
    /\ height' = ed.height
    /\ row' = ed.row
    /\ column' = ed.column
    /\ scroll' = ed.scroll

\* A panic ends the process: nothing of the Ui is left but the reason.
Abort(why, event) ==
    /\ panic' = why
    /\ pc' = "aborted"
    /\ last' = event
    /\ buffer' = <<>>
    /\ width' = 0
    /\ height' = 0
    /\ row' = 0
    /\ column' = 0
    /\ scroll' = 0
    /\ should_exit' = FALSE
    /\ frame' = NoFrame

\* Ui::new: the editor gets the terminal's rows less the status bar's (a
\* terminal that reports no rows at start is not modelled).
InitOver(cs, ws, rs) ==
    /\ \E text \in TextsOver(cs), w \in ws, r \in rs :
         LET ed == new(text, w, r - 1)
         IN /\ buffer = ed.buffer
            /\ width = ed.width
            /\ height = ed.height
            /\ row = ed.row
            /\ column = ed.column
            /\ scroll = ed.scroll
            /\ panic = ed.panic
    /\ should_exit = FALSE
    /\ pc = "render"
    /\ frame = NoFrame
    /\ last = [NoEvent EXCEPT !.cmd = "new"]

\* Ui::render, as far as SourceEditor::render: the frame, or a panic.  With
\* the cursor above the window, row - scroll panics or wraps.  What Ui::render
\* then writes to the terminal (the lines, the status bar) is the output
\* sink's and is not modelled.
Render ==
    /\ pc = "render"
    /\ IF \E i \in 1..Len(Visible(Ed)) : ~CanTruncate(Visible(Ed)[i], width)
       THEN Abort("render_slice", last)
       ELSE \/ /\ row < scroll
               /\ Abort("render_subtract", last)
            \/ /\ frame' = [lines |-> RenderLines(Ed), column |-> column,
                            row |-> row - scroll]
               /\ pc' = "event"
               /\ last' = NoEvent
               /\ UNCHANGED <<buffer, width, height, row, column, scroll,
                              should_exit, panic>>

\* A loop that takes the next event without rendering the frame in between.
Handled_without_render(ed, exit, what, arg) ==
    IF ed.panic # "none" THEN Abort(ed.panic, Before(what, arg))
    ELSE \/ /\ SetEditor(ed)
            /\ should_exit' = exit
            /\ pc' = IF exit THEN "done" ELSE "event"
            /\ last' = Before(what, arg)
            /\ UNCHANGED <<panic, frame>>
         \/ Abort("connect", [NoEvent EXCEPT !.cmd = what])

\* Ui::handle_event once the command has made ed of the editor: a panic of
\* the command ends the process; so does the debug stream's
\* connect().unwrap() when nothing listens; otherwise Ui::run tests
\* should_exit.
Handled(ed, exit, what, arg) ==
    IF ed.panic # "none" THEN Abort(ed.panic, Before(what, arg))
    ELSE \/ /\ SetEditor(ed)
            /\ should_exit' = exit
            /\ pc' = IF exit THEN "done" ELSE "render"
            /\ last' = Before(what, arg)
            /\ UNCHANGED <<panic, frame>>
         \/ Abort("connect", [NoEvent EXCEPT !.cmd = what])

AtEvent == pc = "event"

Backspace == AtEvent /\ Handled(backspace(Ed), FALSE, "Backspace", <<>>)

Enter == AtEvent /\ Len(buffer) < MaxLines /\ Handled(enter(Ed), FALSE, "Enter", <<>>)

MoveLeft == AtEvent /\ Handled(left(Ed), FALSE, "MoveLeft", <<>>)

MoveRight == AtEvent /\ Handled(right(Ed), FALSE, "MoveRight", <<>>)

MoveUp == AtEvent /\ Handled(up(Ed), FALSE, "MoveUp", <<>>)

MoveDown == AtEvent /\ Handled(down(Ed), FALSE, "MoveDown", <<>>)

Home == AtEvent /\ Handled(home(Ed), FALSE, "Home", <<>>)

End == AtEvent /\ Handled(end(Ed), FALSE, "End", <<>>)

InsertChar(c) ==
    /\ AtEvent
    /\ TotalBytes(buffer) + Len(c) <= MaxBytes
    /\ Handled(keypress(Ed, c), FALSE, "InsertChar", c)

\* Event::Resize(w, r): zero rows make height - 1 underflow: a panic with
\* overflow checks; without them the height wraps to 2^64 - 1 and the next
\* render panics allocating its lines.  The process ends either way.
Resize(w, r) ==
    /\ AtEvent
    /\ Handled(IF r = 0 THEN Panicked(Ed, "resize_subtract") ELSE resize(Ed, w, r - 1),
               FALSE, "Resize", <<w, r>>)

\* KeyCode::Esc
Exit == AtEvent /\ Handled(Ed, TRUE, "Exit", <<>>)

\* KeyCode::Null, a key with modifiers, a mouse event.
Ignored == AtEvent /\ Handled(Ed, FALSE, "Ignored", <<>>)

\* PageUp, PageDown, Tab, BackTab, Delete, Insert, F(_): todo!().
Unimplemented == AtEvent /\ Handled(Panicked(Ed, "todo"), FALSE, "Unimplemented", <<>>)

NextOver(cs, ws, rs) ==
    \/ Render
    \/ Backspace
    \/ Enter
    \/ MoveLeft
    \/ MoveRight
    \/ MoveUp
    \/ MoveDown
    \/ Home
    \/ End
    \/ \E c \in cs : InsertChar(c)
    \/ \E w \in ws, r \in rs : Resize(w, r)
    \/ Exit
    \/ Ignored
    \/ Unimplemented

Init == InitOver(Chars, 0..MaxWidth, 1..MaxRows)

Next == NextOver(Chars, 0..MaxWidth, 0..MaxRows)

Spec == Init /\ [][Next]_vars

\* The editor within the core's preconditions: single-byte characters only,
\* and a viewport of at least one column and one row.
InitCore == InitOver(AsciiChars, 1..MaxWidth, 2..MaxRows)

NextCore == NextOver(AsciiChars, 1..MaxWidth, 2..MaxRows)

SpecCore == InitCore /\ [][NextCore]_vars

\* scroll_to_show_cursor on its own, from any row of a buffer, any scroll and
\* any height, whether or not the editor's commands lead there.
InitScroll ==
    /\ \E n \in 1..AnyLines, r \in 0..AnyLines - 1, s \in 0..AnyScroll,
          h \in 0..AnyHeight :
         /\ r < n
         /\ buffer = [i \in 1..n |-> <<>>]
         /\ row = r
         /\ scroll = s
         /\ height = h
    /\ width = 1
    /\ column = 0
    /\ panic = "none"
    /\ should_exit = FALSE
    /\ pc = "scroll"
    /\ frame = NoFrame
    /\ last = NoEvent

\* One call of scroll_to_show_cursor, on the state as it is or on the result
\* of the call before.
ScrollToShowCursor ==
    /\ pc \in {"scroll", "scrolled"}
    /\ SetEditor(scroll_to_show_cursor(Ed))
    /\ last' = Before("scroll_to_show_cursor", <<>>)
    /\ pc' = "scrolled"
    /\ UNCHANGED <<should_exit, panic, frame>>

NextScroll == ScrollToShowCursor

SpecScroll == InitScroll /\ [][NextScroll]_vars

----------------------------------------------------------------------------
\* What the claims speak of.

\* The number of characters of s (the bytes that start one).
NumChars(s) == Cardinality({i \in 1..Len(s) : ~IsContinuation(s[i])})

\* The characters of s, each as its encoding.
RECURSIVE CharsOf(_)
CharsOf(s) ==
    IF s = <<>> THEN <<>>
    ELSE LET n == Min(Utf8Len(s[1]), Len(s))
         IN <<Prefix(s, n)>> \o CharsOf(Suffix(s, n))

\* The process is alive: the loop runs, or has ended by Exit.
Alive == pc # "aborted"

\* The command cmd has been applied and has returned; its frame is not yet
\* rendered.
After(cmd) == Alive /\ pc \in {"render", "done"} /\ last.cmd = cmd

\* The panics of a command of the SourceEditor, and those of all its methods,
\* render included (not those of the Ui: the debug stream, a key it does not
\* implement, a terminal of no rows).
CommandPanics == {"index", "boundary", "remove", "subtract"}

CorePanics == CommandPanics \cup {"render_slice", "render_subtract"}

\* A cursor of the data model: a line of the Document, and a column that
\* counts the characters before the cursor.
ValidAt(ls, r, c) == r >= 0 /\ r < Len(ls) /\ c >= 0 /\ c <= NumChars(ls[r + 1])

\* C1: after every completed command, with a viewport of at least one row
\* throughout (SpecCore), the cursor's row is inside the window:
\* scroll <= row < scroll + height.
C1_CursorInWindow == Alive => (scroll <= row /\ row < scroll + height)

\* C2: the Document always has at least one line: the empty text loads as one
\* empty line, no command leaves the buffer empty, and a Backspace that
\* removes a line (never row 0) keeps its content in the line before.
C2_AtLeastOneLine ==
    /\ SplitLines(<<>>) = << <<>> >>
    /\ Alive => Len(buffer) >= 1
    /\ (After("Backspace") /\ Len(buffer) # Len(last.buffer)) =>
          /\ last.row > 0
          /\ Len(buffer) = Len(last.buffer) - 1
          /\ Flatten(buffer) = Flatten(last.buffer)

\* C2's case: a Backspace has merged the second of two lines into the first.
C2_Witness ==
    /\ After("Backspace")
    /\ Len(last.buffer) = 2
    /\ Len(buffer) = 1
    /\ buffer[1] # <<>>

\* C3: in every reachable state the cursor is valid: 0 <= row < |Document|
\* and 0 <= column <= |Document[row]|, the number of characters of the line.
C3_CursorValid == Alive => ValidAt(buffer, row, column)

\* C4: with a viewport of at least one column and one row (SpecCore), no
\* command and no render fails: no index out of range, no subtraction below
\* zero; the frame's cursor row, row - scroll, is never negative.
C4_NoCoreFailure ==
    /\ panic \notin CorePanics
    /\ pc = "event" => frame.row >= 0

\* s without its k-th element (k counted from 1).
DropAt(s, k) == SubSeq(s, 1, k - 1) \o SubSeq(s, k + 1, Len(s))

\* The first n characters of a line, and the rest of it.
HeadChars(line, n) == Flatten(SubSeq(CharsOf(line), 1, n))

TailChars(line, n) == Flatten(SubSeq(CharsOf(line), n + 1, NumChars(line)))

\* The event found a valid cursor (last keeps what it found, unless the debug
\* stream ended the process).
FoundValid(cmd) ==
    last.cmd = cmd /\ last.buffer # <<>> /\ ValidAt(last.buffer, last.row, last.column)

\* C5: Backspace at a valid cursor (row, col): with col > 0 it removes exactly
\* the character at index col-1 of line row and the cursor becomes
\* (row, col-1); with col = 0 and row > 0 it appends line row to line row-1,
\* removes line row, and the cursor becomes (row-1, L), L the length line
\* row-1 had; all other lines are unchanged.
C5_Backspace ==
    FoundValid("Backspace") =>
        LET old == last.buffer
            r == last.row
            c == last.column
        IN /\ panic \notin CommandPanics
           /\ (After("Backspace") /\ c > 0) =>
                 /\ Len(buffer) = Len(old)
                 /\ \A i \in 1..Len(old) : i # r + 1 => buffer[i] = old[i]
                 /\ CharsOf(buffer[r + 1]) = DropAt(CharsOf(old[r + 1]), c)
                 /\ row = r
                 /\ column = c - 1
           /\ (After("Backspace") /\ c = 0 /\ r > 0) =>
                 /\ buffer = SubSeq(old, 1, r - 1) \o <<old[r] \o old[r + 1]>>
                                \o SubSeq(old, r + 2, Len(old))
                 /\ row = r - 1
                 /\ column = NumChars(old[r])

\* C6: Enter at a valid cursor (row, col) keeps the first col characters of
\* line row at row, inserts the rest as a new line row+1, shifts the later
\* lines down by one, leaves the earlier lines unchanged and sets the cursor
\* to (row+1, 0).
C6_Enter ==
    FoundValid("Enter") =>
        LET old == last.buffer
            r == last.row
            c == last.column
        IN /\ panic \notin CommandPanics
           /\ After("Enter") =>
                 /\ buffer = SubSeq(old, 1, r)
                                \o <<HeadChars(old[r + 1], c), TailChars(old[r + 1], c)>>
                                \o SubSeq(old, r + 2, Len(old))
                 /\ row = r + 1
                 /\ column = 0

\* C7: for every Document, valid cursor and character, InsertChar and then
\* Backspace restore the Document and the cursor.
C7_InsertThenBackspace ==
    FoundValid("InsertChar") =>
        /\ panic \notin CommandPanics
        /\ After("InsertChar") =>
              LET b == backspace(Ed)
              IN /\ b.panic = "none"
                 /\ b.buffer = last.buffer
                 /\ b.row = last.row
                 /\ b.column = last.column

\* C8: for every Document and valid cursor, Enter and then Backspace restore
\* the Document (the same lines) and the cursor.
C8_EnterThenBackspace ==
    FoundValid("Enter") =>
        /\ panic \notin CommandPanics
        /\ After("Enter") =>
              LET b == backspace(Ed)
              IN /\ b.panic = "none"
                 /\ b.buffer = last.buffer
                 /\ b.row = last.row
                 /\ b.column = last.column

\* C9: MoveUp sets row to max(row-1, 0) and MoveDown sets it to
\* min(row+1, |Document|-1); afterwards column = min(previous column, length
\* of the line at the new row), the length in characters, from any valid
\* cursor.  No desired column is remembered: after a MoveDown that clamped
\* the column, MoveUp keeps the clamped column.
C9_VerticalMoves ==
    /\ (After("MoveUp") /\ FoundValid("MoveUp")) =>
          /\ buffer = last.buffer
          /\ row = IF last.row = 0 THEN 0 ELSE last.row - 1
          /\ column = Min(last.column, NumChars(buffer[row + 1]))
    /\ (After("MoveDown") /\ FoundValid("MoveDown")) =>
          /\ buffer = last.buffer
          /\ row = Min(last.row + 1, Len(buffer) - 1)
          /\ column = Min(last.column, NumChars(buffer[row + 1]))
          /\ (row = last.row + 1 /\ column < last.column) =>
                (up(Ed).row = last.row /\ up(Ed).column = column)

\* C10: MoveUp at row 0, MoveDown at the last row and Backspace at (0,0) leave
\* the Document and the cursor unchanged, and do not fail.
C10_BoundaryNoOps ==
    LET AtBoundary ==
            \/ last.cmd = "MoveUp" /\ last.row = 0
            \/ last.cmd = "MoveDown" /\ last.row = Len(last.buffer) - 1
            \/ last.cmd = "Backspace" /\ last.row = 0 /\ last.column = 0
    IN (last.buffer # <<>> /\ AtBoundary) =>
          /\ panic \notin CommandPanics
          /\ Alive => (buffer = last.buffer /\ row = last.row /\ column = last.column)

\* C10's case: a Backspace at (0,0) of a text that has characters and a
\* second line.
C10_Witness ==
    /\ After("Backspace")
    /\ last.row = 0
    /\ last.column = 0
    /\ Len(last.buffer) >= 2
    /\ last.buffer[1] # <<>>

\* A frame has just been rendered from the editor as it is.
Rendered == pc = "event"

\* C11: renderFrame returns the cursor's screen coordinates
\* (min(column, width), row - scroll): the screen column never exceeds the
\* width, and with a height of at least one (SpecCore) the screen row is in
\* 0..height-1.
C11_ScreenCursor ==
    Rendered =>
        /\ frame.column = Min(column, width)
        /\ frame.column <= width
        /\ frame.row = row - scroll
        /\ height >= 1 => (frame.row >= 0 /\ frame.row <= height - 1)

\* The display line the data model asks for at offset i (counted from 1): the
\* first min(width, |line|) characters of Document[scroll + i - 1], or the
\* end-of-document marker.
DisplayLine(i) ==
    IF scroll + i <= Len(buffer)
    THEN HeadChars(buffer[scroll + i], Min(width, NumChars(buffer[scroll + i])))
    ELSE EndMarker

\* C12: renderFrame returns exactly height display lines, each the first
\* min(width, |line|) characters of its Document line, or the marker past the
\* end of the Document; it does not fail cutting a line.
C12_DisplayLines ==
    /\ panic # "render_slice"
    /\ Rendered =>
          /\ Len(frame.lines) = height
          /\ \A i \in 1..height : frame.lines[i] = DisplayLine(i)

\* scroll_to_show_cursor has just run, on the scroll recorded in last.
Scrolled == pc = "scrolled"

\* C13: scroll_to_show_cursor alone restores the window: from any scroll >= 0,
\* any row of the buffer and any height >= 1, one call leaves scroll >= 0 and
\* scroll <= row < scroll + height.
C13_ScrollRestoresWindow ==
    (Scrolled /\ last.scroll >= 0 /\ last.row < Len(last.buffer) /\ height >= 1) =>
        /\ scroll >= 0
        /\ scroll <= row
        /\ row < scroll + height

C13_Witness ==
    /\ Scrolled
    /\ height >= 1
    /\ last.scroll + height <= row
    /\ scroll # last.scroll

\* C14: a viewport of no rows or no columns is handled by clamps: while the
\* height or the width is 0, scroll never exceeds the cursor's row, and a
\* frame rendered then has no negative cursor row.
C14_ZeroViewport ==
    (Alive /\ (height = 0 \/ width = 0)) =>
        /\ scroll <= row
        /\ Rendered => frame.row >= 0

\* The frame on the screen is the frame of the editor as it is.
FrameIsCurrent ==
    /\ frame.lines = RenderLines(Ed)
    /\ frame.column = column
    /\ frame.row = row - scroll

C16_HorizontalMoves ==
    \A cmd \in {"MoveLeft", "MoveRight", "Home", "End"} :
        FoundValid(cmd) =>
            LET c == last.column
                L == NumChars(last.buffer[last.row + 1])
            IN /\ panic \notin CommandPanics
               /\ After(cmd) =>
                     /\ buffer = last.buffer
                     /\ row = last.row
                     /\ scroll = last.scroll
                     /\ column = CASE cmd = "MoveLeft" -> IF c > 0 THEN c - 1 ELSE c
                                   [] cmd = "MoveRight" -> IF c < L THEN c + 1 ELSE c
                                   [] cmd = "Home" -> 0
                                   [] cmd = "End" -> L

\* C17: scroll_to_show_cursor scrolls no more than it must.  It changes
\* nothing but scroll; it leaves scroll as it is when
\* scroll <= row < scroll + height already holds, so that a second call
\* changes nothing; and when it moves, the cursor's row becomes the top row of
\* the window if it was above, the bottom row if it was below.
C17_MinimalScroll ==
    Scrolled =>
        /\ buffer = last.buffer /\ row = last.row /\ column = last.column
        /\ (last.scroll <= row /\ row < last.scroll + height) => scroll = last.scroll
        /\ scroll_to_show_cursor(Ed) = Ed
        /\ scroll # last.scroll =>
              /\ row < last.scroll => row = scroll
              /\ row >= last.scroll + height => row = scroll + height - 1

\* The text of a Document: its lines joined by line feeds, as characters.
RECURSIVE JoinLines(_)
JoinLines(ls) ==
    IF Len(ls) = 0 THEN <<>>
    ELSE IF Len(ls) = 1 THEN ls[1]
    ELSE ls[1] \o LineFeed \o JoinLines(Tail(ls))

TextOf(ls) == CharsOf(JoinLines(ls))

\* The number of characters of the text before the cursor (r, c).
RECURSIVE CursorOffset(_, _, _)
CursorOffset(ls, r, c) ==
    IF r = 0 THEN c ELSE NumChars(ls[1]) + 1 + CursorOffset(Tail(ls), r - 1, c)

\* The characters t with x put in after the first k of them.
PutAt(t, k, x) == SubSeq(t, 1, k) \o <<x>> \o SubSeq(t, k + 1, Len(t))

\* C18: the text changes only as the command says.  From a valid cursor,
\* InsertChar puts exactly its character in at the cursor (the number of
\* lines stays), Enter puts in one line feed at the cursor (one line more),
\* Backspace takes out the one character or line feed before the cursor, or
\* nothing at (0,0); the moves and Resize leave the Document as it is.
C18_TextConservation ==
    (last.buffer # <<>> /\ ValidAt(last.buffer, last.row, last.column)) =>
        LET old == TextOf(last.buffer)
            at == CursorOffset(last.buffer, last.row, last.column)
        IN /\ panic \notin CommandPanics
           /\ After("InsertChar") =>
                 /\ TextOf(buffer) = PutAt(old, at, last.arg)
                 /\ Len(buffer) = Len(last.buffer)
           /\ After("Enter") =>
                 /\ TextOf(buffer) = PutAt(old, at, LineFeed)
                 /\ Len(buffer) = Len(last.buffer) + 1
           /\ After("Backspace") =>
                 /\ TextOf(buffer) = IF at = 0 THEN old ELSE DropAt(old, at)
                 /\ Len(buffer) = Len(last.buffer)
                                     - (IF at > 0 /\ last.column = 0 THEN 1 ELSE 0)
           /\ (\E cmd \in {"MoveLeft", "MoveRight", "MoveUp", "MoveDown", "Home",
                           "End", "Resize"} : After(cmd)) =>
                 buffer = last.buffer

\* C19: InsertChar works in characters, for every character.  From a valid
\* cursor it does not fail, the column advances by exactly one, and the new
\* cursor is a valid insertion point: a further InsertChar, Backspace or Enter
\* there succeeds, also after a character of more than one byte.
C19_InsertCharUnits ==
    FoundValid("InsertChar") =>
        /\ panic \notin CommandPanics
        /\ After("InsertChar") =>
              /\ column = last.column + 1
              /\ ValidAt(buffer, row, column)
              /\ \A c \in Chars : keypress(Ed, c).panic = "none"
              /\ backspace(Ed).panic = "none"
              /\ enter(Ed).panic = "none"

\* The loop has stopped: by should_exit, or with the process.
Stopped == pc \in {"done", "aborted"}

\* C20: Exit ends the session.  Once Exit is applied the loop is over: no
\* frame is rendered and no event is read any more, and Exit has left the
\* Document, the cursor and scroll as they were.  Before Exit is received the
\* loop does not stop (the debug stream's failure to connect set aside).
C20_ExitEndsLoop ==
    /\ After("Exit") =>
          /\ pc = "done"
          /\ buffer = last.buffer
          /\ row = last.row
          /\ column = last.column
          /\ scroll = last.scroll
    /\ pc = "done" => ~ENABLED Next
    /\ (Stopped /\ panic # "connect") => last.cmd = "Exit"

====
